---- MODULE Spec2Model ----
(***************************************************************************)
(* Model of lambda_function.py of wind_alert: the forecast-table parser,   *)
(* the strong-wind classifier, the grouping and formatting of the alert,   *)
(* and the handler that walks the locations and publishes one alert.       *)
(*                                                                         *)
(* Text is a sequence of characters (one-character strings).  A run of     *)
(* letters that the program only ever compares as a whole (a header, the   *)
(* literal "Forecast Date: ") is kept as one element of the sequence.      *)
(* A Python call returns a record whose field exc is "none", or names the  *)
(* exception it raised.                                                    *)
(***************************************************************************)
EXTENDS Integers, Sequences, FiniteSets, TLC

VARIABLES pc, arg, ret, li, tables, ti, strong_wind_date_locations, sent

vars == <<pc, arg, ret, li, tables, ti, strong_wind_date_locations, sent>>

(***************************************************************************)
(* Bounds of the model.                                                    *)
(***************************************************************************)
MaxCols == 2
MaxSpeed == 22
MaxFindings == 3
MaxTables == 3

(***************************************************************************)
(* Configuration constants.                                                *)
(***************************************************************************)
HOUR_RANGE == <<9, 16>>
MIN_WIND_SPEED == 20
LOCATIONS == << <<"TMTWSC", "Tai Mei Tuk">>, <<"S", "Stanley">>, <<"TM", "Tap Mun">> >>
EXPECTED_DIMENSIONS ==
    << <<"Time (Hour)">>, <<"Temperature (oC)">>, <<"Wind Speed (km/h)">>,
       <<"Wind Direction">>, <<"3-Hourly Rainfall (mm)">> >>

LocationCodes == {LOCATIONS[i][1] : i \in 1..Len(LOCATIONS)}
LocationName(code) == LOCATIONS[CHOOSE i \in 1..Len(LOCATIONS) : LOCATIONS[i][1] = code][2]

(***************************************************************************)
(* Exceptions, named by type and message.                                  *)
(***************************************************************************)
MissingCaption == "Exception: Failed to find table caption for parsing forecast date"
DateFormat == "Exception: Failed to parse forecast date"
TableShape == "Exception: Unexpected row headers"
IndexError == "IndexError: list index out of range"
ValueError == "ValueError"
Raise(e) == [exc |-> e]

(***************************************************************************)
(* Characters and numbers.                                                 *)
(***************************************************************************)
DigitChars == <<"0", "1", "2", "3", "4", "5", "6", "7", "8", "9">>
Digit == {DigitChars[i] : i \in 1..10}
DigitVal(c) == (CHOOSE i \in 1..10 : DigitChars[i] = c) - 1

RECURSIVE DigitsVal(_)
DigitsVal(s) ==
    IF s = <<>> THEN 0
    ELSE 10 * DigitsVal(SubSeq(s, 1, Len(s) - 1)) + DigitVal(s[Len(s)])

RECURSIVE Pow10(_)
Pow10(k) == IF k = 0 THEN 1 ELSE 10 * Pow10(k - 1)

Unsigned(s) == IF s # <<>> /\ s[1] \in {"+", "-"} THEN Tail(s) ELSE s
Sign(s) == IF s # <<>> /\ s[1] = "-" THEN -1 ELSE 1

\* int(str): an optional sign and one or more decimal digits.
int(s) ==
    LET body == Unsigned(s)
    IN  IF body # <<>> /\ \A i \in 1..Len(body) : body[i] \in Digit
        THEN [exc |-> "none", val |-> Sign(s) * DigitsVal(body)]
        ELSE Raise(ValueError)

\* A float is kept exactly, as numerator over a power of ten in lowest form.
RECURSIVE Decimal(_, _)
Decimal(num, den) ==
    IF den > 1 /\ num % 10 = 0 THEN Decimal(num \div 10, den \div 10)
    ELSE <<num, den>>

\* float(str): an optional sign, digits with at most one point, at least one digit.
float(s) ==
    LET body == Unsigned(s)
        dots == {i \in 1..Len(body) : body[i] = "."}
        digs == SelectSeq(body, LAMBDA c : c \in Digit)
        frac == IF dots = {} THEN 0 ELSE Len(body) - (CHOOSE i \in dots : TRUE)
    IN  IF /\ Cardinality(dots) <= 1
           /\ digs # <<>>
           /\ \A i \in 1..Len(body) : body[i] \in Digit \cup {"."}
        THEN [exc |-> "none", val |-> Decimal(Sign(s) * DigitsVal(digs), Pow10(frac))]
        ELSE Raise(ValueError)

(***************************************************************************)
(* Dates: <<year, month, day>>.                                            *)
(***************************************************************************)
IsLeap(y) == (y % 4 = 0 /\ y % 100 # 0) \/ y % 400 = 0
DaysInMonth(y, m) ==
    IF m = 2 THEN (IF IsLeap(y) THEN 29 ELSE 28)
    ELSE IF m \in {4, 6, 9, 11} THEN 30 ELSE 31

\* re.match('Forecast Date: (\d{4}-\d{1,2}-\d{1,2})', caption): anchored at the
\* start only, each \d{1,2} greedy.  group(1) is returned in its three pieces.
re_match(c) ==
    LET IsD(i) == i <= Len(c) /\ c[i] \in Digit
        Is(i, t) == i <= Len(c) /\ c[i] = t
        mlen == IF IsD(7) /\ IsD(8) THEN 2 ELSE 1
        p == 7 + mlen
        dlen == IF IsD(p + 1) /\ IsD(p + 2) THEN 2 ELSE 1
    IN  IF /\ Is(1, "Forecast Date: ")
           /\ \A i \in 2..5 : IsD(i)
           /\ Is(6, "-")
           /\ IsD(7)
           /\ Is(p, "-")
           /\ IsD(p + 1)
        THEN [matched |-> TRUE,
              year |-> SubSeq(c, 2, 5),
              month |-> SubSeq(c, 7, 6 + mlen),
              day |-> SubSeq(c, p + 1, p + dlen)]
        ELSE [matched |-> FALSE]

\* Mutant: the captured text is taken as a date without the calendar check.
strptime_unchecked(m) ==
    [exc |-> "none", val |-> <<DigitsVal(m.year), DigitsVal(m.month), DigitsVal(m.day)>>]

\* datetime.strptime(group, '%Y-%m-%d').date()
strptime(m) ==
    LET y == DigitsVal(m.year)
        mo == DigitsVal(m.month)
        d == DigitsVal(m.day)
    IN  IF y >= 1 /\ mo \in 1..12 /\ d >= 1 /\ d <= DaysInMonth(y, mo)
        THEN [exc |-> "none", val |-> <<y, mo, d>>]
        ELSE Raise(ValueError)

(***************************************************************************)
(* ThreeHourForecast                                                       *)
(***************************************************************************)
ThreeHourForecast(hour, temperature, wind_speed, wind_direction, rainfall) ==
    [hour |-> hour, temperature |-> temperature, wind_speed |-> wind_speed,
     wind_direction |-> wind_direction, rain_fall |-> rainfall]

\* from_strings on one transposed column: the five texts in EXPECTED_DIMENSIONS order.
from_strings(col) ==
    LET h == int(col[1])
        t == float(col[2])
        w == int(col[3])
        r == float(col[5])
    IN  IF h.exc # "none" THEN h
        ELSE IF t.exc # "none" THEN t
        ELSE IF w.exc # "none" THEN w
        ELSE IF r.exc # "none" THEN r
        ELSE [exc |-> "none", val |-> ThreeHourForecast(h.val, t.val, w.val, col[4], r.val)]

\* list(zip(*rows)): as many tuples as the shortest row has cells.
MinLen(rows) ==
    CHOOSE n \in {Len(rows[i]) : i \in 1..Len(rows)} :
        \A i \in 1..Len(rows) : n <= Len(rows[i])
zip(rows) ==
    IF rows = <<>> THEN <<>>
    ELSE [j \in 1..MinLen(rows) |-> [i \in 1..Len(rows) |-> rows[i][j]]]

\* The header check of parse_forecast_table.
HeaderOk(transposed) == transposed[1] = EXPECTED_DIMENSIONS

\* The caption checks of parse_forecast_table: the forecast date, or the exception.
parse_caption(table) ==
    IF ~table.has_caption THEN Raise(MissingCaption)
    ELSE LET match == re_match(table.caption)
         IN  IF ~match.matched THEN Raise(DateFormat)
             ELSE LET d == strptime(match)
                  IN  IF d.exc # "none" THEN Raise(DateFormat) ELSE d

\* The rows of parse_forecast_table: the records, or the exception.
parse_rows(table) ==
    LET transposed == zip(table.rows)
    IN  IF transposed = <<>> THEN Raise(IndexError)
        ELSE IF ~HeaderOk(transposed) THEN Raise(TableShape)
        ELSE LET recs == [j \in 1..(Len(transposed) - 1) |-> from_strings(transposed[j + 1])]
                 bad == {j \in 1..Len(recs) : recs[j].exc # "none"}
             IN  IF bad # {}
                 THEN recs[CHOOSE j \in bad : \A k \in bad : j <= k]
                 ELSE [exc |-> "none", val |-> [j \in 1..Len(recs) |-> recs[j].val]]

parse_forecast_table(table) ==
    LET d == parse_caption(table)
    IN  IF d.exc # "none" THEN d
        ELSE LET r == parse_rows(table)
             IN  IF r.exc # "none" THEN r
                 ELSE [exc |-> "none", forecast_date |-> d.val, day_forecast |-> r.val]

\* Mutant: the speed threshold is exclusive.
is_strong_exclusive(f) ==
    f.wind_speed > MIN_WIND_SPEED /\ (HOUR_RANGE[1] <= f.hour /\ f.hour <= HOUR_RANGE[2])

is_strong(f) ==
    f.wind_speed >= MIN_WIND_SPEED /\ (HOUR_RANGE[1] <= f.hour /\ f.hour <= HOUR_RANGE[2])

summary(f) == ToString(f.hour) \o ":00 - " \o ToString(f.wind_speed) \o " km/h"

(***************************************************************************)
(* A dict is the sequence of its <<key, value>> items in insertion order.  *)
(***************************************************************************)
Has(d, k) == \E i \in 1..Len(d) : d[i][1] = k
Get(d, k) == d[CHOOSE i \in 1..Len(d) : d[i][1] = k][2]
\* d[k] = v: a new key goes last, an existing key keeps its place.
SetItem(d, k, v) ==
    IF Has(d, k)
    THEN [i \in 1..Len(d) |-> IF d[i][1] = k THEN <<k, v>> ELSE d[i]]
    ELSE Append(d, <<k, v>>)

\* Mutant: an existing (date, location) entry is kept, the later finding dropped.
group_step_keep_first(results, finding) ==
    LET date_data == IF Has(results, finding[1]) THEN Get(results, finding[1]) ELSE <<>>
    IN  IF Has(date_data, finding[2]) THEN results
        ELSE SetItem(results, finding[1], SetItem(date_data, finding[2], finding[3]))

\* Mutant: an overwritten location is re-inserted, so it moves to the end of its date.
group_step_reinsert(results, finding) ==
    LET date_data == IF Has(results, finding[1]) THEN Get(results, finding[1]) ELSE <<>>
    IN  SetItem(results, finding[1],
                SetItem(SelectSeq(date_data, LAMBDA it : it[1] # finding[2]),
                        finding[2], finding[3]))

\* One iteration of the loop of group_by_date_location: setdefault, then assignment.
group_step(results, finding) ==
    LET date_data == IF Has(results, finding[1]) THEN Get(results, finding[1]) ELSE <<>>
    IN  SetItem(results, finding[1], SetItem(date_data, finding[2], finding[3]))

RECURSIVE group_by_date_location(_)
group_by_date_location(date_locations) ==
    IF date_locations = <<>> THEN <<>>
    ELSE group_step(group_by_date_location(SubSeq(date_locations, 1, Len(date_locations) - 1)),
                    date_locations[Len(date_locations)])

(***************************************************************************)
(* Formatting.                                                             *)
(***************************************************************************)
Pad2(n) == IF n < 10 THEN "0" \o ToString(n) ELSE ToString(n)
Pad4(n) ==
    IF n < 10 THEN "000" \o ToString(n)
    ELSE IF n < 100 THEN "00" \o ToString(n)
    ELSE IF n < 1000 THEN "0" \o ToString(n)
    ELSE ToString(n)

\* Day of the week, 1 = Sunday.
MonthOffset == <<0, 3, 2, 5, 0, 3, 5, 1, 4, 6, 2, 4>>
DayNames == <<"Sun", "Mon", "Tue", "Wed", "Thu", "Fri", "Sat">>
Weekday(d) ==
    LET y == IF d[2] < 3 THEN d[1] - 1 ELSE d[1]
    IN  ((y + (y \div 4) - (y \div 100) + (y \div 400) + MonthOffset[d[2]] + d[3]) % 7) + 1

\* strftime("%d/%m") and strftime("%Y-%m-%d (%a)")
strftime_dm(d) == Pad2(d[3]) \o "/" \o Pad2(d[2])
strftime_ymd_a(d) ==
    Pad4(d[1]) \o "-" \o Pad2(d[2]) \o "-" \o Pad2(d[3]) \o " (" \o DayNames[Weekday(d)] \o ")"

RECURSIVE Join(_, _)
Join(sep, strs) ==
    IF strs = <<>> THEN ""
    ELSE IF Len(strs) = 1 THEN strs[1]
    ELSE strs[1] \o sep \o Join(sep, Tail(strs))

RECURSIVE Concat(_)
Concat(seqs) == IF seqs = <<>> THEN <<>> ELSE seqs[1] \o Concat(Tail(seqs))

\* The lines the body gets for one location of one date.  The body is kept as
\* the sequence of its lines, each of which the code ends with a newline.
location_lines(item) ==
    <<LocationName(item[1])>> \o
    (IF item[2] = <<>> THEN <<"">>
     ELSE [k \in 1..Len(item[2]) |-> "\t" \o summary(item[2][k])])

date_lines(item) ==
    <<strftime_ymd_a(item[1])>> \o
    Concat([j \in 1..Len(item[2]) |-> location_lines(item[2][j])])

generate_alert(date_locations) ==
    LET date_location_groups == group_by_date_location(date_locations)
        date_summary ==
            [i \in 1..Len(date_location_groups) |->
                strftime_dm(date_location_groups[i][1]) \o " @" \o
                Join(", ", [j \in 1..Len(date_location_groups[i][2]) |->
                               LocationName(date_location_groups[i][2][j][1])])]
    IN  [message_subject |-> "Strong wind forecasted: " \o Join("; ", date_summary),
         message_body |->
            Concat([i \in 1..Len(date_location_groups) |-> date_lines(date_location_groups[i])])]

(***************************************************************************)
(* Inputs: tables as the forecast source can return them.                  *)
(***************************************************************************)
NoCaption == <<>>
Table(has_caption, caption, rows) ==
    [has_caption |-> has_caption, caption |-> caption, rows |-> rows]

Caption(prefix, y, sep, m, d, tail) == <<prefix>> \o y \o <<sep>> \o m \o <<sep>> \o d \o tail

Prefixes == {"Forecast Date: ", "Forecast date: "}
Years == {<<"2", "0", "2", "4">>, <<"2", "0", "2", "3">>, <<"2", "0", "2">>,
          <<"0", "0", "0", "0">>, <<"2", "0", "2", "4", "5">>}
Seps == {"-", "/"}
Months == {<<"3">>, <<"0", "3">>, <<"2">>, <<"1", "2">>, <<"1", "3">>, <<"0">>}
Days == {<<"5">>, <<"0", "5">>, <<"2", "9">>, <<"3", "0">>, <<"3", "1">>, <<"0">>,
         <<"3", "1", "1">>}
Tails == {<<>>, <<" ", "(Tue)">>}

Caption1 == Caption("Forecast Date: ", <<"2", "0", "2", "4">>, "-", <<"3">>, <<"5">>, <<>>)
Caption2 == Caption("Forecast Date: ", <<"2", "0", "2", "4">>, "-", <<"3">>, <<"6">>, <<>>)
Date1 == <<2024, 3, 5>>
Date2 == <<2024, 3, 6>>

\* One hour of a table: the five cell texts, in EXPECTED_DIMENSIONS order.
ColStrongA == << <<"9">>, <<"2", "5", ".", "5">>, <<"2", "5">>, <<"NE">>, <<"0">> >>
ColStrongB == << <<"1", "2">>, <<"2", "6">>, <<"3", "0">>, <<"E">>, <<"1", ".", "5">> >>
ColLate == << <<"1", "7">>, <<"2", "4">>, <<"3", "0">>, <<"E">>, <<"0", ".", "0">> >>
ColCalm == << <<"9">>, <<"-", "1">>, <<"1", "9">>, <<"N">>, <<"0">> >>
ColBadHour == << <<"9", ":", "0", "0">>, <<"2", "5">>, <<"2", "5">>, <<"NE">>, <<"0">> >>
ColBadTemp == << <<"9">>, <<"-">>, <<"2", "5">>, <<"NE">>, <<"0">> >>
ColBadWind == << <<"9">>, <<"2", "5">>, <<"2", "0", ".", "5">>, <<"NE">>, <<"0">> >>
ColBadRain == << <<"9">>, <<"2", "5">>, <<"2", "5">>, <<"NE">>, <<"Trace">> >>
ColKinds == {ColStrongA, ColLate, ColBadHour, ColBadTemp, ColBadWind, ColBadRain}
ColSeqs == UNION {[1..n -> ColKinds] : n \in 0..MaxCols}

\* The header cells of the rows: as expected, reordered, one omitted, one extra,
\* one altered, and no rows at all.
Swap12(h) == [i \in 1..Len(h) |-> IF i = 1 THEN h[2] ELSE IF i = 2 THEN h[1] ELSE h[i]]
HeaderVariants ==
    {EXPECTED_DIMENSIONS,
     Swap12(EXPECTED_DIMENSIONS),
     SubSeq(EXPECTED_DIMENSIONS, 1, 4),
     Append(EXPECTED_DIMENSIONS, <<"Humidity (%)">>),
     [EXPECTED_DIMENSIONS EXCEPT ![2] = <<"Temperature (C)">>],
     <<>>}

\* Row i holds header i and then cell i of every hour.
Rows(headers, cols) ==
    [i \in 1..Len(headers) |->
        <<headers[i]>> \o [j \in 1..Len(cols) |-> IF i <= 5 THEN cols[j][i] ELSE <<"0">>]]
\* Row r without its last cell (r = 0: the rows as they are).
Ragged(rows, r) ==
    [i \in 1..Len(rows) |-> IF i = r THEN SubSeq(rows[i], 1, Len(rows[i]) - 1) ELSE rows[i]]

GoodRows == Rows(EXPECTED_DIMENSIONS, <<ColStrongA, ColLate>>)
RowVariants ==
    {Ragged(Rows(h, cols), r) : h \in HeaderVariants, cols \in ColSeqs, r \in 0..5}
CaptionVariants ==
    {Caption(p, y, s, m, d, t) :
        p \in Prefixes, y \in Years, s \in Seps, m \in Months, d \in Days, t \in Tails}

FewRows ==
    {GoodRows, Rows(Swap12(EXPECTED_DIMENSIONS), <<ColStrongA>>),
     Rows(EXPECTED_DIMENSIONS, <<ColBadWind>>), <<>>}
ParseInputs ==
    {Table(TRUE, c, rows) : c \in CaptionVariants, rows \in FewRows}
    \cup {Table(TRUE, Caption1, rows) : rows \in RowVariants}
    \cup {Table(FALSE, NoCaption, rows) : rows \in FewRows}

\* Records and findings for the aggregator and the formatter.
h9 == ThreeHourForecast(9, <<255, 10>>, 25, <<"NE">>, <<0, 1>>)
h12 == ThreeHourForecast(12, <<26, 1>>, 30, <<"E">>, <<15, 10>>)
h15 == ThreeHourForecast(15, <<26, 1>>, 21, <<"E">>, <<0, 1>>)
FindingPool ==
    {<<d, l, fs>> : d \in {Date1, Date2}, l \in LocationCodes, fs \in {<<h9>>, <<h12, h15>>}}
FindingSeqs == UNION {[1..n -> FindingPool] : n \in 0..MaxFindings}

ClassifierInputs ==
    {ThreeHourForecast(h, t, w, d, r) :
        h \in 0..23, t \in {<<255, 10>>, <<-1, 1>>}, w \in (0..MaxSpeed) \cup {100},
        d \in {<<"NE">>}, r \in {<<0, 1>>, <<15, 10>>}}

(***************************************************************************)
(* The pure functions, each applied to an input drawn at the start.        *)
(***************************************************************************)
Idle ==
    /\ li = 0
    /\ tables = <<>>
    /\ ti = 0
    /\ strong_wind_date_locations = <<>>
    /\ sent = <<>>
KeepRun == UNCHANGED <<li, tables, ti, strong_wind_date_locations, sent>>

InitClassify == pc = "call" /\ arg \in ClassifierInputs /\ ret = "none" /\ Idle
Classify ==
    /\ pc = "call"
    /\ ret' = is_strong(arg)
    /\ pc' = "classified"
    /\ UNCHANGED arg
    /\ KeepRun
SpecClassify == InitClassify /\ [][Classify]_vars

InitParse == pc = "call" /\ arg \in ParseInputs /\ ret = "none" /\ Idle
Parse ==
    /\ pc = "call"
    /\ ret' = parse_forecast_table(arg)
    /\ pc' = "parsed"
    /\ UNCHANGED arg
    /\ KeepRun
SpecParse == InitParse /\ [][Parse]_vars

InitAlert == pc = "call" /\ arg \in FindingSeqs /\ ret = "none" /\ Idle
Group ==
    /\ pc = "call"
    /\ ret' = group_by_date_location(arg)
    /\ pc' = "grouped"
    /\ UNCHANGED arg
    /\ KeepRun
Format ==
    /\ pc = "call"
    /\ ret' = generate_alert(arg)
    /\ pc' = "formatted"
    /\ UNCHANGED arg
    /\ KeepRun
NextAlert == Group \/ Format
SpecAlert == InitAlert /\ [][NextAlert]_vars

(***************************************************************************)
(* lambda_handler: one run over the locations.                             *)
(***************************************************************************)
\* What the forecast source can return for one location.
TableLegend == Table(FALSE, NoCaption, << <<<<"Legend">>, <<"km/h">>>> >>)
TableA == Table(TRUE, Caption1, Rows(EXPECTED_DIMENSIONS, <<ColCalm, ColStrongA, ColLate>>))
TableB == Table(TRUE, Caption1, Rows(EXPECTED_DIMENSIONS, <<ColStrongB>>))
TableN == Table(TRUE, Caption2, Rows(EXPECTED_DIMENSIONS, <<ColCalm, ColLate>>))
TableX == Table(TRUE, Caption1, Rows(Swap12(EXPECTED_DIMENSIONS), <<ColStrongA>>))
FirstTables == {TableLegend, TableA}
ForecastPool == {TableA, TableB, TableN, TableX}
Responses ==
    {<<>>} \cup
    {<<first>> \o rest :
        first \in FirstTables,
        rest \in UNION {[1..n -> ForecastPool] : n \in 0..(MaxTables - 1)}}

\* Mutant: the first table of the response is parsed like the others.
ForecastTablesAll(ts) == ts

\* tables[1:]
ForecastTables(ts) == IF ts = <<>> THEN <<>> ELSE Tail(ts)

\* Mutant: the alert is sent whether or not anything was found.
ShouldAlertAlways(date_locations) == TRUE

\* if strong_wind_date_locations:
ShouldAlert(date_locations) == date_locations # <<>>

\* send_alert: one publish call to the notifier.
send_alert(alert) == sent' = Append(sent, alert)

Init ==
    /\ pc = "fetch"
    /\ arg = "none"
    /\ ret = "none"
    /\ li = 1
    /\ tables = <<>>
    /\ ti = 0
    /\ strong_wind_date_locations = <<>>
    /\ sent = <<>>

\* r = session.get(...); tables = r.html.find('table')
Fetch ==
    /\ pc = "fetch"
    /\ \E response \in Responses : tables' = response
    /\ ti' = 0
    /\ pc' = "tables"
    /\ UNCHANGED <<arg, ret, li, strong_wind_date_locations, sent>>

\* Mutant: a table that fails to parse is skipped and the run goes on.
ParseTableIsolated ==
    /\ pc = "tables"
    /\ ti < Len(ForecastTables(tables))
    /\ LET parsed == parse_forecast_table(ForecastTables(tables)[ti + 1])
           strong_wind_hours ==
               IF parsed.exc # "none" THEN <<>> ELSE SelectSeq(parsed.day_forecast, is_strong)
       IN  /\ strong_wind_date_locations' =
                 IF strong_wind_hours # <<>>
                 THEN Append(strong_wind_date_locations,
                             <<parsed.forecast_date, LOCATIONS[li][1], strong_wind_hours>>)
                 ELSE strong_wind_date_locations
           /\ ti' = ti + 1
           /\ UNCHANGED <<pc, ret>>
    /\ UNCHANGED <<arg, li, tables, sent>>

\* One iteration of "for table in tables[1:]": parse, filter, append the finding.
\* An exception of the parser is not caught and leaves lambda_handler.
ParseTable ==
    /\ pc = "tables"
    /\ ti < Len(ForecastTables(tables))
    /\ LET parsed == parse_forecast_table(ForecastTables(tables)[ti + 1])
       IN  IF parsed.exc # "none"
           THEN /\ pc' = "raised"
                /\ ret' = parsed.exc
                /\ UNCHANGED <<ti, strong_wind_date_locations>>
           ELSE LET strong_wind_hours == SelectSeq(parsed.day_forecast, is_strong)
                IN  /\ strong_wind_date_locations' =
                          IF strong_wind_hours # <<>>
                          THEN Append(strong_wind_date_locations,
                                      <<parsed.forecast_date, LOCATIONS[li][1], strong_wind_hours>>)
                          ELSE strong_wind_date_locations
                    /\ ti' = ti + 1
                    /\ UNCHANGED <<pc, ret>>
    /\ UNCHANGED <<arg, li, tables, sent>>

\* The inner loop is exhausted: the next location, or the end of the outer loop.
EndLocation ==
    /\ pc = "tables"
    /\ ti >= Len(ForecastTables(tables))
    /\ IF li < Len(LOCATIONS)
       THEN li' = li + 1 /\ pc' = "fetch"
       ELSE li' = li /\ pc' = "alert"
    /\ UNCHANGED <<arg, ret, tables, ti, strong_wind_date_locations, sent>>

\* After the loop: generate and send the alert, or only log.
Alert ==
    /\ pc = "alert"
    /\ IF ShouldAlert(strong_wind_date_locations)
       THEN send_alert(generate_alert(strong_wind_date_locations))
       ELSE UNCHANGED sent
    /\ pc' = "done"
    /\ UNCHANGED <<arg, ret, li, tables, ti, strong_wind_date_locations>>

Next == Fetch \/ ParseTable \/ EndLocation \/ Alert
Spec == Init /\ [][Next]_vars

(***************************************************************************)
(* Properties of the classifier.                                           *)
(***************************************************************************)
\* C2: is_strong is true exactly when the wind speed is at least 20 and the hour
\* is from 9 to 16, both ends included; no other field matters and the record is
\* left as it was.
C2_IsStrongBoundaries ==
    pc = "classified" =>
        /\ ret = (arg.wind_speed >= 20 /\ 9 <= arg.hour /\ arg.hour <= 16)
        /\ arg \in ClassifierInputs
C2_Witness ==
    /\ pc = "classified"
    /\ arg.hour = 16
    /\ arg.wind_speed = 20
    /\ ret = TRUE

(***************************************************************************)
(* Properties of the parser.                                               *)
(***************************************************************************)
\* The first cell of each row, in row order (every row has a cell).
HeaderSeq(rows) == [i \in 1..Len(rows) |-> rows[i][1]]
EveryRowHasCell(rows) == \A i \in 1..Len(rows) : rows[i] # <<>>

\* C6: with a valid caption, a header sequence that is not exactly
\* EXPECTED_DIMENSIONS (reordered, shorter, longer, altered, or no rows at all)
\* makes parse_forecast_table fail with the table-shape error.
C6_BadHeaderIsTableShape ==
    (/\ pc = "parsed"
     /\ parse_caption(arg).exc = "none"
     /\ EveryRowHasCell(arg.rows)
     /\ HeaderSeq(arg.rows) # EXPECTED_DIMENSIONS)
        => ret.exc = TableShape

\* The calendar, written out.
IsCalendarDate(y, m, d) ==
    /\ y \in 1..9999
    /\ m \in 1..12
    /\ d >= 1
    /\ d <= (CASE m \in {1, 3, 5, 7, 8, 10, 12} -> 31
               [] m \in {4, 6, 9, 11} -> 30
               [] OTHER -> IF y % 4 = 0 /\ (y % 100 # 0 \/ y % 400 = 0) THEN 29 ELSE 28)
\* What a caption made of these pieces says: the pattern takes four digits of
\* year, one or two of month, and the first one or two digits of the day.
FirstTwo(d) == IF Len(d) <= 2 THEN d ELSE SubSeq(d, 1, 2)
MatchesPattern(p, y, s, m, d) ==
    p = "Forecast Date: " /\ Len(y) = 4 /\ s = "-" /\ Len(m) \in 1..2 /\ Len(d) >= 1

C8_OneRecordPerHour ==
    (/\ pc = "parsed"
     /\ parse_caption(arg).exc = "none"
     /\ arg.rows # <<>>
     /\ EveryRowHasCell(arg.rows)
     /\ HeaderSeq(arg.rows) = EXPECTED_DIMENSIONS)
        => \/ ret.exc = ValueError
           \/ /\ ret.exc = "none"
              /\ Len(ret.day_forecast) = Len(arg.rows[1]) - 1
              /\ \A j \in 1..Len(ret.day_forecast) :
                    ret.day_forecast[j].hour = int(arg.rows[1][j + 1]).val

(***************************************************************************)
(* Properties of the aggregator and the formatter.                         *)
(***************************************************************************)
PairAt(fs, k) == <<fs[k][1], fs[k][2]>>
LastWith(fs, pair) ==
    CHOOSE k \in 1..Len(fs) :
        PairAt(fs, k) = pair /\ \A n \in (k + 1)..Len(fs) : PairAt(fs, n) # pair

\* C4: the aggregate has exactly the dates of the findings, under each date
\* exactly the locations found with it, and at (date, location) the records of
\* the last finding with that pair.
C4_GroupingLastWriteWins ==
    pc = "grouped" =>
        /\ {ret[i][1] : i \in 1..Len(ret)} = {arg[k][1] : k \in 1..Len(arg)}
        /\ \A i, j \in 1..Len(ret) : ret[i][1] = ret[j][1] => i = j
        /\ \A i \in 1..Len(ret) :
            LET locs == ret[i][2]
            IN  /\ {locs[j][1] : j \in 1..Len(locs)} =
                       {arg[k][2] : k \in {n \in 1..Len(arg) : arg[n][1] = ret[i][1]}}
                /\ \A a, b \in 1..Len(locs) : locs[a][1] = locs[b][1] => a = b
                /\ \A j \in 1..Len(locs) :
                       locs[j][2] = arg[LastWith(arg, <<ret[i][1], locs[j][1]>>)][3]
C4_Witness ==
    /\ pc = "grouped"
    /\ Len(ret) = 2
    /\ \E a, b \in 1..Len(arg) : a < b /\ PairAt(arg, a) = PairAt(arg, b) /\ arg[a][3] # arg[b][3]

\* The distinct values of s, in the order of their first occurrence.
RECURSIVE FirstSeen(_)
FirstSeen(s) ==
    IF s = <<>> THEN <<>>
    ELSE LET front == FirstSeen(SubSeq(s, 1, Len(s) - 1))
             x == s[Len(s)]
         IN  IF \E i \in 1..Len(front) : front[i] = x THEN front ELSE Append(front, x)
DatesSeen(fs) == FirstSeen([k \in 1..Len(fs) |-> fs[k][1]])
LocationsSeen(fs, date) ==
    FirstSeen([k \in 1..Len(SelectSeq(fs, LAMBDA f : f[1] = date)) |->
                  SelectSeq(fs, LAMBDA f : f[1] = date)[k][2]])
IsHeading(line) ==
    \/ \E i \in 1..Len(LOCATIONS) : line = LOCATIONS[i][2]
    \/ line \in {strftime_ymd_a(Date1), strftime_ymd_a(Date2)}

\* C5: the subject's segments and the body's sections follow the order in which
\* each date first occurs in the findings, and within a date the locations follow
\* the order in which each pair first occurs, also when a later finding
\* overwrites an earlier one; one segment and one section per date.
C5_FirstSeenOrder ==
    pc = "formatted" =>
        LET dates == DatesSeen(arg)
            names(d) == [j \in 1..Len(LocationsSeen(arg, d)) |->
                            LocationName(LocationsSeen(arg, d)[j])]
        IN  /\ ret.message_subject =
                  "Strong wind forecasted: " \o
                  Join("; ", [i \in 1..Len(dates) |->
                                 strftime_dm(dates[i]) \o " @" \o Join(", ", names(dates[i]))])
            /\ SelectSeq(ret.message_body, IsHeading) =
                  Concat([i \in 1..Len(dates) |->
                             <<strftime_ymd_a(dates[i])>> \o names(dates[i])])
C5_Witness ==
    /\ pc = "formatted"
    /\ Len(arg) = 3
    /\ arg[1][1] = Date2
    /\ arg[2][1] = Date2
    /\ arg[3][1] = Date2
    /\ arg[1][2] = arg[3][2]
    /\ arg[1][2] # arg[2][2]
    /\ arg[1][3] # arg[3][3]
    /\ ret.message_subject = "Strong wind forecasted: 06/03 @" \o LocationName(arg[1][2])
                                 \o ", " \o LocationName(arg[2][2])


(***************************************************************************)
(* Properties of a run of lambda_handler.                                  *)
(***************************************************************************)
\* The table the inner loop is about to parse: the first table is skipped.
AtTable == pc = "tables" /\ ti + 2 <= Len(tables)
CurrentTable == tables[ti + 2]
HasStrongRecord(table) ==
    LET parsed == parse_forecast_table(table)
    IN  /\ parsed.exc = "none"
        /\ \E j \in 1..Len(parsed.day_forecast) :
              /\ parsed.day_forecast[j].wind_speed >= 20
              /\ parsed.day_forecast[j].hour \in 9..16

\* C1: the notifier is called at most once in a run, and never when nothing was
\* found; something is found only by parsing a table that holds a strong record.
C1_AlertOnlyOnFindings ==
    /\ [](Len(sent) <= 1 /\ (sent # <<>> => strong_wind_date_locations # <<>>))
    /\ [][strong_wind_date_locations' # strong_wind_date_locations
            => (AtTable /\ HasStrongRecord(CurrentTable))]_vars
C1_Witness ==
    /\ pc = "done"
    /\ Len(tables) = 3
    /\ tables[2] = TableN
    /\ strong_wind_date_locations = <<>>
    /\ sent = <<>>

\* C3, as claimed: when a table of one location fails to parse and another
\* location has a strong record, the notifier is still called with an alert that
\* includes that location.
C3_FailureIsIsolated ==
    (/\ pc = "raised"
     /\ \E k \in 1..Len(strong_wind_date_locations) :
           strong_wind_date_locations[k][2] # LOCATIONS[li][1])
        => /\ Len(sent) = 1
           /\ \A k \in 1..Len(strong_wind_date_locations) :
                 \E n \in 1..Len(sent[1].message_body) :
                    sent[1].message_body[n] = LocationName(strong_wind_date_locations[k][2])

\* C3, amended: a table that fails to parse ends the run there.  The exception
\* leaves lambda_handler, nothing is processed afterwards, and the notifier is
\* not called, whatever the other locations hold.
C3_FailureAbortsRun ==
    /\ [](pc = "raised" => (sent = <<>> /\ ret # "none"))
    /\ [][/\ pc # "raised"
          /\ (AtTable /\ parse_forecast_table(CurrentTable).exc # "none")
                => /\ pc' = "raised"
                   /\ ret' = parse_forecast_table(CurrentTable).exc
                   /\ UNCHANGED <<li, tables, ti, strong_wind_date_locations, sent>>]_vars
C3_Witness ==
    /\ pc = "raised"
    /\ li = 2
    /\ strong_wind_date_locations # <<>>
    /\ strong_wind_date_locations[1][2] = LOCATIONS[1][1]
    /\ sent = <<>>

\* The findings a location's response gives: every table after the first, in
\* order, gives one finding when it has strong records and none otherwise.
RECURSIVE ExpectedFindings(_, _)
ExpectedFindings(code, ts) ==
    IF ts = <<>> THEN <<>>
    ELSE LET parsed == parse_forecast_table(ts[1])
             strong == SelectSeq(parsed.day_forecast,
                                 LAMBDA f : f.wind_speed >= 20 /\ f.hour \in 9..16)
         IN  (IF strong = <<>> THEN <<>> ELSE << <<parsed.forecast_date, code, strong>> >>)
             \o ExpectedFindings(code, Tail(ts))
LocationIndex(code) == CHOOSE i \in 1..Len(LOCATIONS) : LOCATIONS[i][1] = code
\* The tables of the current location handled so far, the first one left out.
Handled ==
    IF pc = "fetch" THEN <<>>
    ELSE SubSeq(tables, 2, IF ti + 1 <= Len(tables) THEN ti + 1 ELSE Len(tables))

\* C9: while every table parses, the findings are those of the reference:
\* locations in LOCATIONS order, the first table of each response skipped, one
\* finding per later table that has strong records, in response order; no
\* finding is empty or holds a record that is not strong.
C9_FindingsFollowReference ==
    /\ [](pc # "raised" =>
            /\ SelectSeq(strong_wind_date_locations, LAMBDA f : f[2] = LOCATIONS[li][1])
                  = ExpectedFindings(LOCATIONS[li][1], Handled)
            /\ \A k \in 1..Len(strong_wind_date_locations) :
                  LET f == strong_wind_date_locations[k]
                  IN  /\ LocationIndex(f[2]) <= li
                      /\ k > 1 => LocationIndex(strong_wind_date_locations[k - 1][2])
                                      <= LocationIndex(f[2])
                      /\ f[3] # <<>>
                      /\ \A j \in 1..Len(f[3]) :
                            f[3][j].wind_speed >= 20 /\ f[3][j].hour \in 9..16)
    /\ [][/\ Len(strong_wind_date_locations') >= Len(strong_wind_date_locations)
          /\ SubSeq(strong_wind_date_locations', 1, Len(strong_wind_date_locations))
                = strong_wind_date_locations
          /\ \A k \in (Len(strong_wind_date_locations) + 1)..Len(strong_wind_date_locations') :
                strong_wind_date_locations'[k][2] = LOCATIONS[li][1]]_vars
C9_Witness ==
    /\ pc = "done"
    /\ tables = <<TableA, TableN, TableB>>
    /\ Len(strong_wind_date_locations) = 1
    /\ strong_wind_date_locations[1][1] = Date1
    /\ strong_wind_date_locations[1][2] = "TM"
    /\ Len(strong_wind_date_locations[1][3]) = 1
    /\ strong_wind_date_locations[1][3][1].hour = 12

\* The line of a record stands in the body below the heading of its date and,
\* there, below the heading of its location.
UnderHeadings(body, date, code, line) ==
    \E i, j, k \in 1..Len(body) :
        /\ i < j /\ j < k
        /\ body[i] = strftime_ymd_a(date)
        /\ body[j] = LocationName(code)
        /\ body[k] = line
        /\ \A n \in (i + 1)..k : body[n] \notin {strftime_ymd_a(Date1), strftime_ymd_a(Date2)}
        /\ \A n \in (j + 1)..k : ~IsHeading(body[n])

\* C10: no flagged record is lost between detection and the alert: every strong
\* record appended to the findings is a line of the body sent to the notifier,
\* under its date and location, whatever tables the forecast source returns
\* (two tables of one location may carry the same date).
C10_NoFlaggedRecordLost ==
    sent # <<>> =>
        \A k \in 1..Len(strong_wind_date_locations) :
            LET f == strong_wind_date_locations[k]
            IN  \A j \in 1..Len(f[3]) :
                    UnderHeadings(sent[1].message_body, f[1], f[2],
                        "\t" \o ToString(f[3][j].hour) \o ":00 - "
                             \o ToString(f[3][j].wind_speed) \o " km/h")

====
